---- MODULE Spec2Model ----
(***************************************************************************)
(* The deferred, double-buffered command pipeline of crayon's video        *)
(* system (src/src/video/system.rs): producer threads record commands      *)
(* into the front frame, the lifecycle thread swaps the frames in          *)
(* on_pre_update and dispatches the back frame in on_post_update.          *)
(*                                                                         *)
(* One step of the model is one critical section of the code: everything   *)
(* a thread does under one hold of a lock.  A call that takes the pool     *)
(* lock and then the frame lock is two steps, and other threads may run    *)
(* between them.                                                           *)
(*                                                                         *)
(* Beside the pipeline: the backend Context and its capability gate        *)
(* (src/src/graphics/backend/mod.rs), SurfaceSetup::set_attachments        *)
(* (src/src/graphics/assets/surface.rs), the registries' loads by          *)
(* location, and the imgui Renderer (src/modules/imgui/src/renderer.rs).   *)
(***************************************************************************)
EXTENDS Integers, Sequences, FiniteSets, TLC

\* ------------------------------------------------------------------ bounds
MaxCalls == 3
MaxTicks == 2
MaxSwaps == 4
MaxRebuilds == 2
MaxRequests == 3
MaxMeshes == 2

Producers == {1, 2}
Params == {1}
Dims == {1, 2}
Data == {<<7>>, <<8, 9>>}
Offsets == {0}

\* ------------------------------------------------------------ option type
None == <<>>
Some(x) == <<x>>

\* ------------------------------------------------------------ handle pool
\* A pool is a sequence of slots; a handle is (kind, index, generation).
Kinds == {"surfaces", "shaders", "meshes", "textures", "render_textures"}

Handle(k, i, v) == [k |-> k, i |-> i, v |-> v]

\* A handle no pool has ever issued.
UnknownHandle(k) == Handle(k, 0, 0)

PoolNew == <<>>

PoolGet(pool, h) ==
    IF h.i \in 1..Len(pool) /\ pool[h.i].live /\ pool[h.i].gen = h.v
    THEN Some(pool[h.i].params)
    ELSE None

FreeSlots(pool) == {i \in 1..Len(pool) : ~pool[i].live}

PoolCreateIndex(pool) ==
    IF FreeSlots(pool) = {}
    THEN Len(pool) + 1
    ELSE CHOOSE i \in FreeSlots(pool) : \A j \in FreeSlots(pool) : i <= j

\* create(params) -> Handle: reuses a free slot or grows.
PoolCreate(pool, params) ==
    LET i == PoolCreateIndex(pool) IN
    IF i = Len(pool) + 1
    THEN [pool |-> Append(pool, [gen |-> 1, live |-> TRUE, params |-> params]),
          i |-> i, v |-> 1]
    ELSE [pool |-> [pool EXCEPT ![i] = [gen |-> @.gen, live |-> TRUE, params |-> params]],
          i |-> i, v |-> pool[i].gen]

\* free(handle) -> Option<Params>: increments the generation of the slot.
PoolFree(pool, h) ==
    IF PoolGet(pool, h) = None
    THEN [pool |-> pool, removed |-> None]
    ELSE [pool |-> [pool EXCEPT ![h.i] = [gen |-> @.gen + 1, live |-> FALSE, params |-> 0]],
          removed |-> PoolGet(pool, h)]

\* ------------------------------------------------------ frame, double buffer
NoPtr == [off |-> 0, len |-> 0]

\* A command; id, sw and at are history: the number of the call that made it,
\* and the number of swaps done and the lifecycle thread's position when it
\* was pushed.
Command(op, h, arg, ptr, data, id) ==
    [op |-> op, h |-> h, arg |-> arg, ptr |-> ptr, data |-> data,
     id |-> id, sw |-> 0, at |-> "swap"]

NoCmd == Command("None", UnknownHandle("surfaces"), 0, NoPtr, <<>>, 0)

FrameNew == [cmds |-> <<>>, bufs |-> <<>>]

FrameClear(frame) == [cmds |-> <<>>, bufs |-> <<>>]

\* DataBuffer::extend_from_slice: appends and returns where the bytes are.
ExtendFromSlice(bufs, data) ==
    [bufs |-> bufs \o data, ptr |-> [off |-> Len(bufs), len |-> Len(data)]]

\* DataBuffer::as_slice: the bytes a pointer refers to.
AsSlice(bufs, ptr) ==
    IF ptr.off + ptr.len <= Len(bufs)
    THEN SubSeq(bufs, ptr.off + 1, ptr.off + ptr.len)
    ELSE <<>>

CmdsPush(frame, cmd) == [frame EXCEPT !.cmds = Append(@, cmd)]

VARIABLES
    idx,              \* DoubleBuf: index of the front frame
    frames,           \* DoubleBuf: the two frames
    pools,            \* VideoState: surfaces, shaders, meshes, textures, render_textures
    last_dimensions,  \* Lifecycle.last_dimensions
    window,           \* the window's size in pixels, as dimensions_pixels() reads it
    device_ok,        \* whether the visitor's next dispatch succeeds
    nresize,          \* history: number of calls of window::resize
    lpc,              \* lifecycle thread: the next step it takes
    tick,             \* number of swaps done
    handed,           \* history: per on_post_update, the log handed to dispatch, whether
                      \* dispatch succeeded (ok) and what the hook returned (ret)
    pc,               \* producer thread: "idle", or "push" between the two locks
    pending,          \* producer thread: the command it is about to push
    ret,              \* what the last call that failed or succeeded returned
    ncalls,           \* number of calls that made a command
    known,            \* handles returned by create calls
    deleted,          \* history: handles for which a delete call has returned
    refused,          \* history: handles a delete call found already freed
    pushed,           \* history: every command pushed into a frame
    caps,             \* the OpenGL implementation, as Capabilities::parse() reads it
    context,          \* the backend Context, None before Context::new succeeds
    cret,             \* what the last call on the backend Context returned
    swaps,            \* history: one entry per swap_buffers call
    nrebuild,         \* history: number of Context::rebuild calls
    cpc,              \* per caller of swap_buffers: where it is in the call
    redirects,        \* Registry: for each kind and location, its load (0: none)
    loads,            \* Registry: the loads started, each with its handle and state
    requests,         \* history: one entry per create_mesh_from / create_texture_from call
    setup,            \* a SurfaceSetup: colors and depth_stencil
    sret,             \* what the last call on the SurfaceSetup returned
    renderer,         \* the imgui Renderer, None before Renderer::new
    rmeshes,          \* the meshes the Renderer's video system has created
    issued,           \* history: what the Renderer's last call submitted, in order
    executed,         \* history: the submissions the backend executed, in order
    rcall,            \* history: the Renderer's last call, its inputs and its result
    threads           \* per thread, the call it is in and how far it is through its locks

videoVars == <<idx, frames, pools, last_dimensions, window, device_ok, nresize, lpc, tick,
               handed, pc, pending, ret, ncalls, known, deleted, refused, pushed>>

contextVars == <<caps, context, cret, swaps, nrebuild, cpc>>

registryVars == <<redirects, loads, requests>>

setupVars == <<setup, sret>>

rendererVars == <<renderer, rmeshes, issued, executed, rcall>>

lockVars == <<threads>>

\* What the video system's calls leave alone.
others == <<contextVars, registryVars, setupVars, rendererVars, lockVars>>

\* What the backend Context's calls leave alone.
notContext == <<videoVars, registryVars, setupVars, rendererVars, lockVars>>

vars == <<videoVars, others>>

\* DoubleBuf::write, write_back_buf
Front == idx
Back == 1 - idx

InitVideo ==
    /\ idx = 0
    /\ frames = [i \in {0, 1} |-> FrameNew]
    /\ pools = [k \in Kinds |-> PoolNew]
    /\ last_dimensions = 1
    /\ window = 1
    /\ device_ok = TRUE
    /\ nresize = 0
    /\ lpc = "swap"
    /\ tick = 0
    /\ handed = <<>>
    /\ pc = [p \in Producers |-> "idle"]
    /\ pending = [p \in Producers |-> NoCmd]
    /\ ret = "ok"
    /\ ncalls = 0
    /\ known = {}
    /\ deleted = {}
    /\ refused = {}
    /\ pushed = {}

\* ----------------------------------------------------------- backend context
\* Version::GL(major, minor), Version::ES(major, minor)
GL(major, minor) == [api |-> "GL", major |-> major, minor |-> minor]
ES(major, minor) == [api |-> "ES", major |-> major, minor |-> minor]

\* Place of the variant in the enum.
ApiIndex(api) == IF api = "GL" THEN 0 ELSE 1

\* a < b on versions: the variant first, then major, then minor.
VersionLt(a, b) ==
    \/ ApiIndex(a.api) < ApiIndex(b.api)
    \/ /\ a.api = b.api
       /\ \/ a.major < b.major
          \/ (a.major = b.major /\ a.minor < b.minor)

\* The flags of Capabilities.extensions that check_minimal_requirements reads.
Extensions ==
    {"gl_arb_vertex_buffer_object", "gl_arb_map_buffer_range",
     "gl_arb_shader_objects", "gl_arb_vertex_shader", "gl_arb_fragment_shader",
     "gl_ext_framebuffer_object", "gl_arb_framebuffer_object",
     "gl_ext_framebuffer_blit", "gl_arb_uniform_buffer_object",
     "gl_arb_vertex_array_object", "gl_apple_vertex_array_object",
     "gl_oes_vertex_array_object"}

Versions == {GL(1, 4), GL(1, 5), GL(2, 0), GL(3, 0), GL(3, 1),
             ES(1, 1), ES(2, 0), ES(3, 0)}

\* Capabilities: a version and the set of extensions present.
CapsSet == [version : Versions, extensions : SUBSET Extensions]

FullCaps == [version |-> GL(3, 1), extensions |-> {}]

\* check_minimal_requirements requiring, for vertex array objects, the version
\* and an extension both.
check_minimal_requirements_both(c) ==
    LET has(e) == e \in c.extensions
        v == c.version
    IN
    IF (VersionLt(v, GL(1, 5)) /\ VersionLt(v, ES(2, 0))
            /\ (~has("gl_arb_vertex_buffer_object") \/ ~has("gl_arb_map_buffer_range")))
    THEN "vertex buffer objects"
    ELSE IF (VersionLt(v, GL(2, 0)) /\ VersionLt(v, ES(2, 0))
            /\ (~has("gl_arb_shader_objects") \/ ~has("gl_arb_vertex_shader")
                \/ ~has("gl_arb_fragment_shader")))
    THEN "vertex/fragment shaders"
    ELSE IF (VersionLt(v, GL(3, 0)) /\ VersionLt(v, ES(2, 0))
            /\ ~has("gl_ext_framebuffer_object") /\ ~has("gl_arb_framebuffer_object"))
    THEN "framebuffers"
    ELSE IF (VersionLt(v, ES(2, 0)) /\ VersionLt(v, GL(3, 0))
            /\ ~has("gl_ext_framebuffer_blit"))
    THEN "blitting framebuffers"
    ELSE IF (VersionLt(v, GL(3, 1)) /\ VersionLt(v, ES(3, 0))
            /\ ~has("gl_arb_uniform_buffer_object"))
    THEN "uniform buffer object"
    ELSE IF ((VersionLt(v, GL(3, 0)) /\ VersionLt(v, ES(3, 0)))
            \/ (~has("gl_arb_vertex_array_object")
                /\ ~has("gl_apple_vertex_array_object")
                /\ ~has("gl_oes_vertex_array_object")))
    THEN "vertex array object"
    ELSE "ok"

\* Context::check_minimal_requirements: "ok", or what the first failing test
\* says is not supported.
check_minimal_requirements(c) ==
    LET has(e) == e \in c.extensions
        v == c.version
    IN
    IF (VersionLt(v, GL(1, 5)) /\ VersionLt(v, ES(2, 0))
            /\ (~has("gl_arb_vertex_buffer_object") \/ ~has("gl_arb_map_buffer_range")))
    THEN "vertex buffer objects"
    ELSE IF (VersionLt(v, GL(2, 0)) /\ VersionLt(v, ES(2, 0))
            /\ (~has("gl_arb_shader_objects") \/ ~has("gl_arb_vertex_shader")
                \/ ~has("gl_arb_fragment_shader")))
    THEN "vertex/fragment shaders"
    ELSE IF (VersionLt(v, GL(3, 0)) /\ VersionLt(v, ES(2, 0))
            /\ ~has("gl_ext_framebuffer_object") /\ ~has("gl_arb_framebuffer_object"))
    THEN "framebuffers"
    ELSE IF (VersionLt(v, ES(2, 0)) /\ VersionLt(v, GL(3, 0))
            /\ ~has("gl_ext_framebuffer_blit"))
    THEN "blitting framebuffers"
    ELSE IF (VersionLt(v, GL(3, 1)) /\ VersionLt(v, ES(3, 0))
            /\ ~has("gl_arb_uniform_buffer_object"))
    THEN "uniform buffer object"
    ELSE IF (VersionLt(v, GL(3, 0)) /\ VersionLt(v, ES(3, 0))
            /\ ~has("gl_arb_vertex_array_object")
            /\ ~has("gl_apple_vertex_array_object")
            /\ ~has("gl_oes_vertex_array_object"))
    THEN "vertex array object"
    ELSE "ok"

\* The threads that call swap_buffers on the one Context.
ContextCallers == {1, 2}

InitContext ==
    /\ context = None
    /\ cret = "none"
    /\ swaps = <<>>
    /\ nrebuild = 0
    /\ cpc = [c \in ContextCallers |-> [at |-> "idle", began |-> 0]]

\* Context::new: make the window's context current and parse its capabilities
\* (native_ok: whether both succeed), check them, build the Context.
Context_new(native_ok) ==
    /\ context = None
    /\ IF ~native_ok
       THEN /\ cret' = "native"
            /\ UNCHANGED context
       ELSE IF check_minimal_requirements(caps) # "ok"
       THEN /\ cret' = check_minimal_requirements(caps)
            /\ UNCHANGED context
       ELSE /\ context' = Some([context_lost |-> FALSE, capabilities |-> caps])
            /\ cret' = "ok"
    /\ UNCHANGED <<caps, swaps, nrebuild, cpc, notContext>>

\* Context::is_context_lost
is_context_lost == context[1].context_lost

\* What the window's swap_buffers can give.
NativeSwapOutcomes == {"ok", "ContextLost", "IoError"}

\* The calls of swap_buffers that have begun and not returned.
InSwap == {c \in ContextCallers : cpc[c].at # "idle"}

\* swap_buffers going on to the native swap without looking at context_lost.
swap_buffers_retry(c) ==
    /\ context # None
    /\ cpc[c].at = "idle"
    /\ Len(swaps) + Cardinality(InSwap) < MaxSwaps
    /\ cpc' = [cpc EXCEPT ![c] = [at |-> "native", began |-> Len(swaps)]]
    /\ UNCHANGED <<caps, context, cret, swaps, nrebuild, notContext>>

\* Context::swap_buffers, first statement: context_lost is read under its read
\* lock, which is given back at once; the call fails when it is set. began
\* is history: the number of calls that had returned by then.
swap_buffers(c) ==
    /\ context # None
    /\ cpc[c].at = "idle"
    /\ Len(swaps) + Cardinality(InSwap) < MaxSwaps
    /\ IF context[1].context_lost
       THEN /\ cret' = "ContextLost"
            /\ swaps' = Append(swaps, [native |-> FALSE, res |-> "ContextLost",
                                       nrebuild |-> nrebuild, began |-> Len(swaps)])
            /\ UNCHANGED cpc
       ELSE /\ cpc' = [cpc EXCEPT ![c] = [at |-> "native", began |-> Len(swaps)]]
            /\ UNCHANGED <<cret, swaps>>
    /\ UNCHANGED <<caps, context, nrebuild, notContext>>

\* Context::swap_buffers, the native swap, with no lock held; outcome is what
\* the window's swap_buffers gives. Any outcome but ContextLost is returned.
swap_buffers_native(c, outcome) ==
    /\ cpc[c].at = "native"
    /\ IF outcome = "ContextLost"
       THEN /\ cpc' = [cpc EXCEPT ![c].at = "mark"]
            /\ UNCHANGED <<cret, swaps>>
       ELSE /\ cret' = outcome
            /\ swaps' = Append(swaps, [native |-> TRUE, res |-> outcome,
                                       nrebuild |-> nrebuild, began |-> cpc[c].began])
            /\ cpc' = [cpc EXCEPT ![c] = [at |-> "idle", began |-> 0]]
    /\ UNCHANGED <<caps, context, nrebuild, notContext>>

\* Context::swap_buffers, the ContextLost arm: context_lost is set under its
\* write lock and the call fails.
swap_buffers_mark(c) ==
    /\ cpc[c].at = "mark"
    /\ context' = Some([context[1] EXCEPT !.context_lost = TRUE])
    /\ cret' = "ContextLost"
    /\ swaps' = Append(swaps, [native |-> TRUE, res |-> "ContextLost",
                               nrebuild |-> nrebuild, began |-> cpc[c].began])
    /\ cpc' = [cpc EXCEPT ![c] = [at |-> "idle", began |-> 0]]
    /\ UNCHANGED <<caps, nrebuild, notContext>>

\* Context::rebuild: an associated function that takes the window and returns
\* Ok(()); it has no access to a Context.
rebuild ==
    /\ nrebuild < MaxRebuilds
    /\ nrebuild' = nrebuild + 1
    /\ cret' = "ok"
    /\ UNCHANGED <<caps, context, swaps, cpc, notContext>>


\* --------------------------------------------------------- lifecycle thread
\* on_pre_update, first statement: frames.swap()
on_pre_update_swap ==
    /\ lpc = "swap"
    /\ tick < MaxTicks
    /\ idx' = 1 - idx
    /\ tick' = tick + 1
    /\ lpc' = "clear"
    /\ UNCHANGED <<frames, pools, last_dimensions, window, device_ok, nresize, handed, pc, pending, ret,
                   ncalls, known, deleted, refused, pushed>>
    /\ UNCHANGED others

\* Mutant: on_pre_update clearing the back frame, the one about to be dispatched.
on_pre_update_clear_back ==
    /\ lpc = "clear"
    /\ frames' = [frames EXCEPT ![Back] = FrameClear(@)]
    /\ lpc' = "post"
    /\ UNCHANGED <<idx, pools, last_dimensions, window, device_ok, nresize, tick,
                   handed, pc, pending, ret, ncalls, known, deleted, refused, pushed>>
    /\ UNCHANGED others

\* Mutant: on_pre_update without its second statement.
on_pre_update_noclear ==
    /\ lpc = "clear"
    /\ lpc' = "post"
    /\ UNCHANGED <<idx, frames, pools, last_dimensions, window, device_ok, nresize, tick,
                   handed, pc, pending, ret, ncalls, known, deleted, refused, pushed>>
    /\ UNCHANGED others

\* on_pre_update, second statement: frames.write().clear()
on_pre_update_clear ==
    /\ lpc = "clear"
    /\ frames' = [frames EXCEPT ![Front] = FrameClear(@)]
    /\ lpc' = "post"
    /\ UNCHANGED <<idx, pools, last_dimensions, window, device_ok, nresize, tick, handed, pc, pending, ret,
                   ncalls, known, deleted, refused, pushed>>
    /\ UNCHANGED others

\* Frame::dispatch: the visitor is handed the commands in order; a failure
\* returns early and leaves the log as it is.
Dispatch(frame, ok) == IF ok THEN FrameClear(frame) ELSE frame

\* dimensions_pixels(): the window's dimensions scaled by the pixel ratio.
dimensions_pixels == window

\* Mutant: on_post_update dispatching the front frame, the one producers write.
on_post_update_front ==
    /\ lpc = "post"
    /\ last_dimensions' = window
    /\ nresize' = IF window # last_dimensions THEN nresize + 1 ELSE nresize
    /\ handed' = Append(handed, [cmds |-> frames[Front].cmds,
                                 bufs |-> frames[Front].bufs,
                                 dims |-> window,
                                 measured |-> window,
                                 before |-> last_dimensions,
                                 resized |-> window # last_dimensions,
                                 ok |-> device_ok,
                                 ret |-> IF device_ok THEN "ok" ELSE "err"])
    /\ frames' = [frames EXCEPT ![Front] = Dispatch(@, device_ok)]
    /\ lpc' = "swap"
    /\ UNCHANGED <<idx, pools, window, device_ok, tick, pc, pending, ret, ncalls,
                   known, deleted, refused, pushed>>
    /\ UNCHANGED others

\* Mutant: on_post_update returning Ok(()) whatever dispatch returned.
on_post_update_swallow ==
    /\ lpc = "post"
    /\ last_dimensions' = window
    /\ nresize' = IF window # last_dimensions THEN nresize + 1 ELSE nresize
    /\ handed' = Append(handed, [cmds |-> frames[Back].cmds,
                                 bufs |-> frames[Back].bufs,
                                 dims |-> window,
                                 measured |-> window,
                                 before |-> last_dimensions,
                                 resized |-> window # last_dimensions,
                                 ok |-> device_ok,
                                 ret |-> "ok"])
    /\ frames' = [frames EXCEPT ![Back] = Dispatch(@, device_ok)]
    /\ lpc' = "swap"
    /\ UNCHANGED <<idx, pools, window, device_ok, tick, pc, pending, ret, ncalls,
                   known, deleted, refused, pushed>>
    /\ UNCHANGED others

\* Mutant: on_post_update dispatching before it stores the new dimensions.
on_post_update_dispatch_first ==
    /\ lpc = "post"
    /\ last_dimensions' = window
    /\ nresize' = IF window # last_dimensions THEN nresize + 1 ELSE nresize
    /\ handed' = Append(handed, [cmds |-> frames[Back].cmds,
                                 bufs |-> frames[Back].bufs,
                                 dims |-> last_dimensions,
                                 measured |-> window,
                                 before |-> last_dimensions,
                                 resized |-> window # last_dimensions,
                                 ok |-> device_ok,
                                 ret |-> IF device_ok THEN "ok" ELSE "err"])
    /\ frames' = [frames EXCEPT ![Back] = Dispatch(@, device_ok)]
    /\ lpc' = "swap"
    /\ UNCHANGED <<idx, pools, window, device_ok, tick, pc, pending, ret, ncalls,
                   known, deleted, refused, pushed>>
    /\ UNCHANGED others

\* on_post_update: resize the window when its size changed, then dispatch the
\* back frame with last_dimensions.
on_post_update ==
    /\ lpc = "post"
    /\ LET dimensions == dimensions_pixels IN
        /\ last_dimensions' = IF dimensions # last_dimensions
                              THEN dimensions
                              ELSE last_dimensions
        /\ nresize' = IF dimensions # last_dimensions THEN nresize + 1 ELSE nresize
        /\ handed' = Append(handed, [cmds |-> frames[Back].cmds,
                                     bufs |-> frames[Back].bufs,
                                     dims |-> last_dimensions',
                                     measured |-> dimensions,
                                     before |-> last_dimensions,
                                     resized |-> dimensions # last_dimensions,
                                     ok |-> device_ok,
                                     ret |-> IF device_ok THEN "ok" ELSE "err"])
        /\ frames' = [frames EXCEPT ![Back] = Dispatch(@, device_ok)]
    /\ lpc' = "swap"
    /\ UNCHANGED <<idx, pools, window, device_ok, tick, pc, pending, ret, ncalls,
                   known, deleted, refused, pushed>>
    /\ UNCHANGED others

\* The user resizes the window: dimensions_pixels() gives d from now on.
window_change(d) ==
    /\ d # window
    /\ window' = d
    /\ UNCHANGED <<idx, frames, pools, last_dimensions, device_ok, nresize, lpc, tick, handed,
                   pc, pending, ret, ncalls, known, deleted, refused, pushed>>
    /\ UNCHANGED others

\* The device under the visitor starts or stops failing.
device_change ==
    /\ device_ok' = ~device_ok
    /\ UNCHANGED <<idx, frames, pools, last_dimensions, window, nresize, lpc, tick, handed,
                   pc, pending, ret, ncalls, known, deleted, refused, pushed>>
    /\ UNCHANGED others

\* --------------------------------------------------------- producer threads
\* The first critical section of a create call: the pool's write lock.
CreateAlloc(p, k, op, params) ==
    /\ pc[p] = "idle"
    /\ ncalls < MaxCalls
    /\ LET r == PoolCreate(pools[k], params) IN
        /\ pools' = [pools EXCEPT ![k] = r.pool]
        /\ pending' = [pending EXCEPT ![p] =
                Command(op, Handle(k, r.i, r.v), params, NoPtr, <<>>, ncalls + 1)]
    /\ pc' = [pc EXCEPT ![p] = "push"]
    /\ ncalls' = ncalls + 1
    /\ UNCHANGED <<idx, frames, last_dimensions, window, device_ok, nresize, lpc, tick, handed, ret,
                   known, deleted, refused, pushed>>
    /\ UNCHANGED others

\* The second critical section of a create call: frames.write().cmds.push(cmd),
\* after which the handle is returned.
CreatePush(p, op) ==
    /\ pc[p] = "push"
    /\ pending[p].op = op
    /\ LET cmd == [pending[p] EXCEPT !.sw = tick, !.at = lpc] IN
        /\ frames' = [frames EXCEPT ![Front] = CmdsPush(@, cmd)]
        /\ pushed' = pushed \cup {cmd}
        /\ known' = known \cup {cmd.h}
    /\ pc' = [pc EXCEPT ![p] = "idle"]
    /\ pending' = [pending EXCEPT ![p] = NoCmd]
    /\ ret' = "ok"
    /\ UNCHANGED <<idx, pools, last_dimensions, window, device_ok, nresize, lpc, tick, handed, ncalls, deleted, refused>>
    /\ UNCHANGED others

\* The data a create call of a Registry is given: none, or the bytes.
CreateData == {None, Some(<<8, 9>>)}

\* create_mesh, create_texture: Registry::create allocates the handle; the `?`
\* passes an error of the registry on (registry_ok is false) and then nothing
\* is allocated or pushed.
RegistryCreate(p, k, op, params, data, registry_ok) ==
    /\ pc[p] = "idle"
    /\ IF registry_ok
       THEN /\ ncalls < MaxCalls
            /\ LET r == PoolCreate(pools[k], params) IN
                /\ pools' = [pools EXCEPT ![k] = r.pool]
                /\ pending' = [pending EXCEPT ![p] =
                        Command(op, Handle(k, r.i, r.v), params, NoPtr,
                                IF data = None THEN <<>> ELSE data[1], ncalls + 1)]
            /\ pc' = [pc EXCEPT ![p] = "push"]
            /\ ncalls' = ncalls + 1
            /\ UNCHANGED ret
       ELSE /\ ret' = "err"
            /\ UNCHANGED <<pools, pending, pc, ncalls>>
    /\ UNCHANGED <<idx, frames, last_dimensions, window, device_ok, nresize, lpc, tick,
                   handed, known, deleted, refused, pushed>>
    /\ UNCHANGED others

\* The loader of a Registry pushes the create command; the bytes given with
\* the call go into the arena of the same frame under the same guard, and the
\* command points at them.
RegistryCreatePush(p, op) ==
    /\ pc[p] = "push"
    /\ pending[p].op = op
    /\ LET ext == ExtendFromSlice(frames[Front].bufs, pending[p].data)
           cmd == [pending[p] EXCEPT !.sw = tick, !.at = lpc,
                       !.ptr = IF pending[p].data = <<>> THEN NoPtr ELSE ext.ptr]
       IN /\ frames' = [frames EXCEPT ![Front] =
                            CmdsPush([@ EXCEPT !.bufs = ext.bufs], cmd)]
          /\ pushed' = pushed \cup {cmd}
          /\ known' = known \cup {cmd.h}
    /\ pc' = [pc EXCEPT ![p] = "idle"]
    /\ pending' = [pending EXCEPT ![p] = NoCmd]
    /\ ret' = "ok"
    /\ UNCHANGED <<idx, pools, last_dimensions, window, device_ok, nresize, lpc, tick,
                   handed, ncalls, deleted, refused>>
    /\ UNCHANGED others

\* The first critical section of a delete call: free under the pool's write
\* lock; the call returns at once when free gives None.
DeleteFree(p, k, op, h) ==
    /\ pc[p] = "idle"
    /\ h.k = k
    /\ LET r == PoolFree(pools[k], h) IN
        IF r.removed # None
        THEN /\ ncalls < MaxCalls
             /\ pools' = [pools EXCEPT ![k] = r.pool]
             /\ pending' = [pending EXCEPT ![p] =
                     Command(op, h, 0, NoPtr, <<>>, ncalls + 1)]
             /\ pc' = [pc EXCEPT ![p] = "push"]
             /\ ncalls' = ncalls + 1
             /\ UNCHANGED <<ret, deleted, refused>>
        ELSE /\ ret' = "ok"
             /\ deleted' = deleted \cup ({h} \cap known)
             /\ refused' = refused \cup ({h} \cap known)
             /\ UNCHANGED <<pools, pending, pc, ncalls>>
    /\ UNCHANGED <<idx, frames, last_dimensions, window, device_ok, nresize, lpc, tick, handed, known, pushed>>
    /\ UNCHANGED others

\* The second critical section of a delete call: frames.write().cmds.push(cmd).
DeletePush(p, op) ==
    /\ pc[p] = "push"
    /\ pending[p].op = op
    /\ LET cmd == [pending[p] EXCEPT !.sw = tick, !.at = lpc] IN
        /\ frames' = [frames EXCEPT ![Front] = CmdsPush(@, cmd)]
        /\ pushed' = pushed \cup {cmd}
        /\ deleted' = deleted \cup {cmd.h}
    /\ pc' = [pc EXCEPT ![p] = "idle"]
    /\ pending' = [pending EXCEPT ![p] = NoCmd]
    /\ ret' = "ok"
    /\ UNCHANGED <<idx, pools, last_dimensions, window, device_ok, nresize, lpc, tick, handed, ncalls, known, refused>>
    /\ UNCHANGED others

\* An update call: the registry's get runs the closure under its read lock; the
\* closure appends the bytes and pushes the command under one frame guard.
UpdateData(p, k, op, h, offset, data) ==
    /\ pc[p] = "idle"
    /\ h.k = k
    /\ IF PoolGet(pools[k], h) # None
       THEN /\ ncalls < MaxCalls
            /\ LET ext == ExtendFromSlice(frames[Front].bufs, data)
                   cmd == [Command(op, h, offset, ext.ptr, data, ncalls + 1)
                               EXCEPT !.sw = tick, !.at = lpc]
               IN /\ frames' = [frames EXCEPT ![Front] =
                                    CmdsPush([@ EXCEPT !.bufs = ext.bufs], cmd)]
                  /\ pushed' = pushed \cup {cmd}
            /\ ncalls' = ncalls + 1
            /\ ret' = "ok"
       ELSE /\ ret' = "notfound"
            /\ UNCHANGED <<frames, pushed, ncalls>>
    /\ UNCHANGED <<idx, pools, last_dimensions, window, device_ok, nresize, lpc, tick, handed, pc, pending,
                   known, deleted, refused>>
    /\ UNCHANGED others

\* Handles a caller can pass: those some create call returned, or a made-up one.
Handles(k) == {h \in known : h.k = k} \cup {UnknownHandle(k)}

\* ------------------------------------------------------------------ mutants
\* Bugs the code could have, each a changed copy of one operation.

\* create_surface pushing its command at the head of the log.
create_surface_push_head(p) ==
    /\ pc[p] = "push"
    /\ pending[p].op = "CreateSurface"
    /\ LET cmd == [pending[p] EXCEPT !.sw = tick, !.at = lpc] IN
        /\ frames' = [frames EXCEPT ![Front].cmds = <<cmd>> \o @]
        /\ pushed' = pushed \cup {cmd}
        /\ known' = known \cup {cmd.h}
    /\ pc' = [pc EXCEPT ![p] = "idle"]
    /\ pending' = [pending EXCEPT ![p] = NoCmd]
    /\ ret' = "ok"
    /\ UNCHANGED <<idx, pools, last_dimensions, window, device_ok, nresize, lpc,
                   tick, handed, ncalls, deleted, refused>>
    /\ UNCHANGED others

\* update_vertex_buffer writing through write_back_buf instead of write.
update_vertex_buffer_back(p, handle, offset, data) ==
    /\ pc[p] = "idle"
    /\ handle.k = "meshes"
    /\ PoolGet(pools["meshes"], handle) # None
    /\ ncalls < MaxCalls
    /\ LET ext == ExtendFromSlice(frames[Back].bufs, data)
           cmd == [Command("UpdateVertexBuffer", handle, offset, ext.ptr, data, ncalls + 1)
                       EXCEPT !.sw = tick, !.at = lpc]
       IN /\ frames' = [frames EXCEPT ![Back] =
                            CmdsPush([@ EXCEPT !.bufs = ext.bufs], cmd)]
          /\ pushed' = pushed \cup {cmd}
    /\ ncalls' = ncalls + 1
    /\ ret' = "ok"
    /\ UNCHANGED <<idx, pools, last_dimensions, window, device_ok, nresize, lpc,
                   tick, handed, pc, pending, known, deleted, refused>>
    /\ UNCHANGED others

\* Mutant: update_vertex_buffer taking the frame's write access twice, once to
\* append the bytes and once to push the command.
update_vertex_buffer_two_holds(p, handle, offset, data) ==
    /\ handle.k = "meshes"
    /\ \/ /\ pc[p] = "idle"
          /\ PoolGet(pools["meshes"], handle) # None
          /\ ncalls < MaxCalls
          /\ LET ext == ExtendFromSlice(frames[Front].bufs, data) IN
              /\ frames' = [frames EXCEPT ![Front] = [@ EXCEPT !.bufs = ext.bufs]]
              /\ pending' = [pending EXCEPT ![p] =
                      Command("UpdateVertexBuffer", handle, offset, ext.ptr, data, ncalls + 1)]
          /\ pc' = [pc EXCEPT ![p] = "push"]
          /\ ncalls' = ncalls + 1
          /\ UNCHANGED <<pushed, ret>>
       \/ /\ pc[p] = "push"
          /\ pending[p].op = "UpdateVertexBuffer"
          /\ pending[p].h = handle /\ pending[p].arg = offset /\ pending[p].data = data
          /\ LET cmd == [pending[p] EXCEPT !.sw = tick, !.at = lpc] IN
              /\ frames' = [frames EXCEPT ![Front] = CmdsPush(@, cmd)]
              /\ pushed' = pushed \cup {cmd}
          /\ pc' = [pc EXCEPT ![p] = "idle"]
          /\ pending' = [pending EXCEPT ![p] = NoCmd]
          /\ ret' = "ok"
          /\ UNCHANGED ncalls
    /\ UNCHANGED <<idx, pools, last_dimensions, window, device_ok, nresize, lpc,
                   tick, handed, known, deleted, refused>>
    /\ UNCHANGED others

\* update_texture not looking the handle up: it writes whatever the handle.
update_texture_blind(p, handle, area, data) ==
    /\ pc[p] = "idle"
    /\ handle.k = "textures"
    /\ ncalls < MaxCalls
    /\ LET ext == ExtendFromSlice(frames[Front].bufs, data)
           cmd == [Command("UpdateTexture", handle, area, ext.ptr, data, ncalls + 1)
                       EXCEPT !.sw = tick, !.at = lpc]
       IN /\ frames' = [frames EXCEPT ![Front] =
                            CmdsPush([@ EXCEPT !.bufs = ext.bufs], cmd)]
          /\ pushed' = pushed \cup {cmd}
    /\ ncalls' = ncalls + 1
    /\ ret' = "ok"
    /\ UNCHANGED <<idx, pools, last_dimensions, window, device_ok, nresize, lpc,
                   tick, handed, pc, pending, known, deleted, refused>>
    /\ UNCHANGED others

\* delete_surface pushing DeleteSurface whatever free returned.
delete_surface_always(p, handle) ==
    /\ pc[p] = "idle"
    /\ handle.k = "surfaces"
    /\ ncalls < MaxCalls
    /\ pools' = [pools EXCEPT !["surfaces"] = PoolFree(@, handle).pool]
    /\ pending' = [pending EXCEPT ![p] =
            Command("DeleteSurface", handle, 0, NoPtr, <<>>, ncalls + 1)]
    /\ pc' = [pc EXCEPT ![p] = "push"]
    /\ ncalls' = ncalls + 1
    /\ UNCHANGED <<idx, frames, last_dimensions, window, device_ok, nresize, lpc,
                   tick, handed, ret, known, deleted, refused, pushed>>
    /\ UNCHANGED others

\* delete_surface pushing DeleteSurface for a live handle without freeing its slot.
delete_surface_keep(p, handle) ==
    /\ pc[p] = "idle"
    /\ handle.k = "surfaces"
    /\ PoolGet(pools["surfaces"], handle) # None
    /\ ncalls < MaxCalls
    /\ pending' = [pending EXCEPT ![p] =
            Command("DeleteSurface", handle, 0, NoPtr, <<>>, ncalls + 1)]
    /\ pc' = [pc EXCEPT ![p] = "push"]
    /\ ncalls' = ncalls + 1
    /\ UNCHANGED <<idx, frames, pools, last_dimensions, window, device_ok, nresize,
                   lpc, tick, handed, ret, known, deleted, refused, pushed>>
    /\ UNCHANGED others

\* create_shader allocating the slot before it validates the parameters.
create_shader_alloc_first(p, params, valid) ==
    IF valid
    THEN CreateAlloc(p, "shaders", "CreateShader", params)
    ELSE /\ pc[p] = "idle"
         /\ pools' = [pools EXCEPT !["shaders"] = PoolCreate(@, params).pool]
         /\ ret' = "invalid"
         /\ UNCHANGED <<idx, frames, last_dimensions, window, device_ok, nresize, lpc,
                        tick, handed, pc, pending, ncalls, known, deleted, refused, pushed>>
         /\ UNCHANGED others

\* ---- surfaces
create_surface(p, params) == CreateAlloc(p, "surfaces", "CreateSurface", params)
create_surface_push(p) == CreatePush(p, "CreateSurface")
surface(handle) == PoolGet(pools["surfaces"], handle)
delete_surface(p, handle) == DeleteFree(p, "surfaces", "DeleteSurface", handle)
delete_surface_push(p) == DeletePush(p, "DeleteSurface")

\* ---- shaders
create_shader(p, params, valid) ==
    IF valid
    THEN CreateAlloc(p, "shaders", "CreateShader", params)
    ELSE /\ pc[p] = "idle"
         /\ ret' = "invalid"
         /\ UNCHANGED <<idx, frames, pools, last_dimensions, window, device_ok, nresize, lpc, tick, handed,
                        pc, pending, ncalls, known, deleted, refused, pushed>>
         /\ UNCHANGED others
create_shader_push(p) == CreatePush(p, "CreateShader")
shader(handle) == PoolGet(pools["shaders"], handle)
delete_shader(p, handle) == DeleteFree(p, "shaders", "DeleteShader", handle)
delete_shader_push(p) == DeletePush(p, "DeleteShader")

\* ---- meshes
create_mesh(p, params, data, registry_ok) ==
    RegistryCreate(p, "meshes", "CreateMesh", params, data, registry_ok)
create_mesh_push(p) == RegistryCreatePush(p, "CreateMesh")
mesh(handle) == PoolGet(pools["meshes"], handle)
update_vertex_buffer(p, handle, offset, data) ==
    UpdateData(p, "meshes", "UpdateVertexBuffer", handle, offset, data)
update_index_buffer(p, handle, offset, data) ==
    UpdateData(p, "meshes", "UpdateIndexBuffer", handle, offset, data)
delete_mesh(p, handle) == DeleteFree(p, "meshes", "DeleteMesh", handle)
delete_mesh_push(p) == DeletePush(p, "DeleteMesh")

\* ---- textures
create_texture(p, params, data, registry_ok) ==
    RegistryCreate(p, "textures", "CreateTexture", params, data, registry_ok)
create_texture_push(p) == RegistryCreatePush(p, "CreateTexture")
update_texture(p, handle, area, data) ==
    UpdateData(p, "textures", "UpdateTexture", handle, area, data)
delete_texture(p, handle) == DeleteFree(p, "textures", "DeleteTexture", handle)
delete_texture_push(p) == DeletePush(p, "DeleteTexture")

\* ---- render textures
create_render_texture(p, params) ==
    CreateAlloc(p, "render_textures", "CreateRenderTexture", params)
create_render_texture_push(p) == CreatePush(p, "CreateRenderTexture")
render_texture(handle) == PoolGet(pools["render_textures"], handle)
delete_render_texture(p, handle) ==
    DeleteFree(p, "render_textures", "DeleteRenderTexture", handle)
delete_render_texture_push(p) == DeletePush(p, "DeleteRenderTexture")

\* ------------------------------------------------------------ surface setup
MAX_FRAMEBUFFER_ATTACHMENTS == 8

\* Render texture handles a caller attaches.
RenderTextures == {1, 2}

\* The lists of color attachments a caller passes: up to one more than fit.
ColorLists == UNION {[1..n -> RenderTextures] : n \in 0..(MAX_FRAMEBUFFER_ATTACHMENTS + 1)}

\* SurfaceSetup::default
InitSetup ==
    /\ setup = [colors |-> [i \in 1..MAX_FRAMEBUFFER_ATTACHMENTS |-> None],
                depth_stencil |-> None]
    /\ sret = "none"

\* SurfaceSetup::set_attachments
set_attachments(colors, depth_stencil) ==
    /\ IF Len(colors) >= MAX_FRAMEBUFFER_ATTACHMENTS
       THEN /\ sret' = "TooManyColorAttachments"
            /\ UNCHANGED setup
       ELSE /\ setup' = [colors |-> [i \in 1..MAX_FRAMEBUFFER_ATTACHMENTS |->
                                        IF i - 1 < Len(colors) THEN Some(colors[i]) ELSE None],
                         depth_stencil |-> depth_stencil]
            /\ sret' = "ok"
    /\ UNCHANGED <<videoVars, contextVars, lockVars, registryVars, rendererVars>>

\* ------------------------------------------------------------ imgui renderer
\* Sizes of the vertex and index buffers of a draw list.
VertCounts == {1, 3}
IdxCounts == {2, 5}

\* The id Renderer::new gives imgui for the font texture.
FontTexture == 1

\* A command of a draw list: its elem_count, its clip_rect, its texture_id.
DrawCmd(elem_count, clip_rect, texture_id) ==
    [elem_count |-> elem_count, clip_rect |-> clip_rect, texture_id |-> texture_id]

\* The cmd_buffer of a draw list; the last one has a command with the id of a
\* texture that is not the Renderer's.
CmdBuffers ==
    {<<>>,
     <<DrawCmd(2, 1, FontTexture)>>,
     <<DrawCmd(3, 1, FontTexture), DrawCmd(2, 2, FontTexture)>>,
     <<DrawCmd(3, 1, FontTexture), DrawCmd(2, 2, 2)>>}

\* Where a call of the Renderer can fail: in update_mesh a submit or the
\* create that returns an error; in the loop over cmd_buffer, at its at-th
\* command, the submit of the scissor, DrawCall::build, or the submit of the
\* draw call.
Fail(what, at) == [what |-> what, at |-> at]
LoopPlaces == {1, 2}
Fails ==
    {Fail(what, 0) : what \in {"none", "submit_vertex", "submit_index", "create"}}
        \cup {Fail(what, at) : what \in {"scissor", "build", "draw"}, at \in LoopPlaces}

\* What the Renderer hands to its video system.
RCmd(op, mesh_handle, a, b) == [op |-> op, mesh |-> mesh_handle, a |-> a, b |-> b]

InitRenderer ==
    /\ renderer = None
    /\ rmeshes = <<>>
    /\ issued = <<>>
    /\ executed = <<>>
    /\ rcall = [op |-> "none"]

\* Renderer::new: a surface in sequence mode, the shader, the font texture; no
\* mesh yet.
Renderer_new(ok) ==
    /\ renderer = None
    /\ renderer' = IF ok
                   THEN Some([surface |-> [sequence |-> TRUE], mesh |-> None])
                   ELSE None
    /\ rcall' = [op |-> "new", ret |-> IF ok THEN "ok" ELSE "err"]
    /\ issued' = <<>>
    /\ executed' = <<>>
    /\ UNCHANGED <<rmeshes, videoVars, contextVars, lockVars, registryVars, setupVars>>

\* let mut nv = 1; while nv < n { nv *= 2; }
RECURSIVE Grow(_, _)
Grow(nv, n) == IF nv < n THEN Grow(nv * 2, n) ELSE nv

\* The part of update_mesh after the cache: sizes, create_mesh, the new cache.
\* pre is what was submitted before.
UpdateMeshCreate(cache, meshes, nverts, nidx, fail, pre) ==
    LET nv == Grow(1, nverts)
        ni == Grow(1, nidx)
        h == Len(meshes) + 1
    IN IF fail.what = "create"
       THEN [mesh |-> cache, meshes |-> meshes, issued |-> pre, ret |-> "err", handle |-> 0]
       ELSE [mesh |-> Some(<<nv, ni, h>>),
             meshes |-> Append(meshes, [nv |-> nv, ni |-> ni, alive |-> TRUE]),
             issued |-> Append(pre, RCmd("CreateMesh", h, nv, ni)),
             ret |-> "ok", handle |-> h]

\* update_mesh reusing the cached mesh when either capacity suffices.
update_mesh_either(cache, meshes, nverts, nidx, fail) ==
    IF cache # None
    THEN LET nv == cache[1][1]
             ni == cache[1][2]
             handle == cache[1][3]
         IN IF nv >= nverts \/ ni >= nidx
            THEN [mesh |-> cache, meshes |-> meshes,
                  issued |-> <<RCmd("UpdateVertexBuffer", handle, 0, nverts),
                               RCmd("UpdateIndexBuffer", handle, 0, nidx)>>,
                  ret |-> "ok", handle |-> handle]
            ELSE UpdateMeshCreate(cache, [meshes EXCEPT ![handle].alive = FALSE],
                                  nverts, nidx, fail, <<RCmd("DeleteMesh", handle, 0, 0)>>)
    ELSE UpdateMeshCreate(cache, meshes, nverts, nidx, fail, <<>>)

\* Renderer::update_mesh: the new cache, the meshes, what was submitted, and
\* the handle returned. A submit for a mesh that was deleted returns the
\* not-found error, as every update through a stale handle does.
update_mesh(cache, meshes, nverts, nidx, fail) ==
    IF cache # None
    THEN LET nv == cache[1][1]
             ni == cache[1][2]
             handle == cache[1][3]
         IN IF nv >= nverts /\ ni >= nidx
            THEN IF fail.what = "submit_vertex" \/ ~meshes[handle].alive
                 THEN [mesh |-> cache, meshes |-> meshes, issued |-> <<>>,
                       ret |-> "err", handle |-> 0]
                 ELSE IF fail.what = "submit_index"
                 THEN [mesh |-> cache, meshes |-> meshes,
                       issued |-> <<RCmd("UpdateVertexBuffer", handle, 0, nverts)>>,
                       ret |-> "err", handle |-> 0]
                 ELSE [mesh |-> cache, meshes |-> meshes,
                       issued |-> <<RCmd("UpdateVertexBuffer", handle, 0, nverts),
                                    RCmd("UpdateIndexBuffer", handle, 0, nidx)>>,
                       ret |-> "ok", handle |-> handle]
            ELSE UpdateMeshCreate(cache, [meshes EXCEPT ![handle].alive = FALSE],
                                  nverts, nidx, fail, <<RCmd("DeleteMesh", handle, 0, 0)>>)
    ELSE UpdateMeshCreate(cache, meshes, nverts, nidx, fail, <<>>)

\* The loop of render_draw_list over cmd_buffer from its k-th command on: the
\* assert on the command's texture id, its scissor, its draw call, then
\* idx_start += elem_count. A panic or an error leaves the loop with what was
\* submitted so far.
RECURSIVE DrawLoopFrom(_, _, _, _, _)
DrawLoopFrom(cmds, mesh_handle, idx_start, k, fail) ==
    IF cmds = <<>>
    THEN [issued |-> <<>>, ret |-> "ok"]
    ELSE IF cmds[1].texture_id # FontTexture
    THEN [issued |-> <<>>, ret |-> "panic"]
    ELSE IF fail.what = "scissor" /\ fail.at = k
    THEN [issued |-> <<>>, ret |-> "err"]
    ELSE IF fail.what \in {"build", "draw"} /\ fail.at = k
    THEN [issued |-> <<RCmd("SetScissor", 0, cmds[1].clip_rect, 0)>>, ret |-> "err"]
    ELSE LET rest == DrawLoopFrom(Tail(cmds), mesh_handle,
                                  idx_start + cmds[1].elem_count, k + 1, fail)
         IN [issued |-> <<RCmd("SetScissor", 0, cmds[1].clip_rect, 0),
                          RCmd("Draw", mesh_handle, idx_start, cmds[1].elem_count)>>
                        \o rest.issued,
             ret |-> rest.ret]

\* let mut idx_start = 0; for cmd in tasks.cmd_buffer { .. }
DrawLoopFail(cmds, mesh_handle, fail) == DrawLoopFrom(cmds, mesh_handle, 0, 1, fail)

\* render_draw_list that does not advance idx_start.
render_draw_list_same_start(tasks, zero, fail) ==
    /\ renderer # None
    /\ LET um == update_mesh(renderer[1].mesh, rmeshes, tasks.nverts, tasks.nidx, fail)
           dl == [issued |-> [j \in 1..(2 * Len(tasks.cmds)) |->
                                IF j % 2 = 1
                                THEN RCmd("SetScissor", 0, tasks.cmds[(j + 1) \div 2].clip_rect, 0)
                                ELSE RCmd("Draw", um.handle, 0, tasks.cmds[j \div 2].elem_count)],
                  ret |-> "ok"]
       IN /\ Len(um.meshes) <= MaxMeshes
          /\ renderer' = Some([renderer[1] EXCEPT !.mesh = um.mesh])
          /\ rmeshes' = um.meshes
          /\ issued' = IF um.ret = "ok" /\ ~zero THEN um.issued \o dl.issued ELSE um.issued
          /\ rcall' = [op |-> "render", tasks |-> tasks, zero |-> zero,
                       before |-> renderer[1].mesh, um |-> um.ret, handle |-> um.handle,
                       base |-> Len(um.issued),
                       ret |-> IF um.ret # "ok" THEN "err" ELSE IF zero THEN "ok" ELSE dl.ret]
    /\ executed' = <<>>
    /\ UNCHANGED <<videoVars, contextVars, lockVars, registryVars, setupVars>>

\* Renderer::render_draw_list: update the mesh, return when the display has no
\* size (zero), then submit every command of the draw list.
render_draw_list(tasks, zero, fail) ==
    /\ renderer # None
    /\ LET um == update_mesh(renderer[1].mesh, rmeshes, tasks.nverts, tasks.nidx, fail)
           dl == DrawLoopFail(tasks.cmds, um.handle, fail)
       IN /\ Len(um.meshes) <= MaxMeshes
          /\ renderer' = Some([renderer[1] EXCEPT !.mesh = um.mesh])
          /\ rmeshes' = um.meshes
          /\ issued' = IF um.ret = "ok" /\ ~zero THEN um.issued \o dl.issued ELSE um.issued
          /\ rcall' = [op |-> "render", tasks |-> tasks, zero |-> zero,
                       before |-> renderer[1].mesh, um |-> um.ret, handle |-> um.handle,
                       base |-> Len(um.issued),
                       ret |-> IF um.ret # "ok" THEN "err" ELSE IF zero THEN "ok" ELSE dl.ret]
    /\ executed' = <<>>
    /\ UNCHANGED <<videoVars, contextVars, lockVars, registryVars, setupVars>>

\* Drop for Renderer: the surface, the shader and the texture are deleted, and
\* the cached mesh when there is one. was_alive is history: whether that mesh
\* was still there to delete.
Renderer_drop ==
    /\ renderer # None
    /\ LET cache == renderer[1].mesh IN
        IF cache # None
        THEN /\ rmeshes' = [rmeshes EXCEPT ![cache[1][3]].alive = FALSE]
             /\ issued' = <<RCmd("DeleteMesh", cache[1][3], 0, 0)>>
             /\ rcall' = [op |-> "drop", mesh |-> cache,
                          was_alive |-> rmeshes[cache[1][3]].alive]
        ELSE /\ rmeshes' = rmeshes
             /\ issued' = <<>>
             /\ rcall' = [op |-> "drop", mesh |-> cache, was_alive |-> FALSE]
    /\ renderer' = None
    /\ executed' = <<>>
    /\ UNCHANGED <<videoVars, contextVars, lockVars, registryVars, setupVars>>

\* The orders in which the backend may execute what a surface was handed: the
\* order of submission for a surface in sequence mode; for any other surface
\* also that order with two draw calls exchanged.
BackendOrders(cmds, sequence) ==
    IF sequence
    THEN {cmds}
    ELSE {cmds} \cup
         {[cmds EXCEPT ![i] = cmds[j], ![j] = cmds[i]] :
            <<i, j>> \in {ij \in (1..Len(cmds)) \X (1..Len(cmds)) :
                            cmds[ij[1]].op = "Draw" /\ cmds[ij[2]].op = "Draw"}}

\* The backend executes what the last call submitted.
backend_execute ==
    /\ renderer # None
    /\ issued # <<>>
    /\ executed = <<>>
    /\ executed' \in BackendOrders(issued, renderer[1].surface.sequence)
    /\ UNCHANGED <<renderer, rmeshes, issued, rcall, videoVars, contextVars, lockVars, registryVars,
                   setupVars>>

\* ------------------------------------------- registry: loads from a location
\* The kinds kept in a Registry, and what content is asked by: a location or
\* a content id.
RegistryKinds == {"meshes", "textures"}
Urls == {"a", "b"}
Uuids == {"uuid:5"}

InitRegistry ==
    /\ redirects = [key \in RegistryKinds \X (Urls \cup Uuids) |-> 0]
    /\ loads = <<>>
    /\ requests = <<>>

\* The create command of a kind.
CreateOp(k) == IF k = "meshes" THEN "CreateMesh" ELSE "CreateTexture"

\* Registry::create_from starting a load of its own for every request.
RegistryCreateFromAlways(p, k, url, registry_ok) ==
    /\ pc[p] = "idle"
    /\ Len(requests) < MaxRequests
    /\ LET i == redirects[<<k, url>>]
           r == PoolCreate(pools[k], 1)
           h == Handle(k, r.i, r.v)
       IN /\ pools' = [pools EXCEPT ![k] = r.pool]
          /\ loads' = Append(loads, [k |-> k, url |-> url, h |-> h, state |-> "Pending"])
          /\ redirects' = [redirects EXCEPT ![<<k, url>>] = Len(loads) + 1]
          /\ known' = known \cup {h}
          /\ requests' = Append(requests,
                [p |-> p, k |-> k, url |-> url, h |-> h, fresh |-> TRUE,
                 seen |-> IF i = 0 THEN "None" ELSE loads[i].state])
    /\ ret' = "ok"
    /\ UNCHANGED <<idx, frames, last_dimensions, window, device_ok, nresize, lpc, tick,
                   handed, pc, pending, ncalls, deleted, refused, pushed>>
    /\ UNCHANGED <<contextVars, lockVars, setupVars, rendererVars>>

\* Registry::create_from, under the registry's lock: a request for a location
\* whose load is Pending or Ready gets the handle of that load; any other
\* request allocates a handle and starts a load. When the registry returns an
\* error (registry_ok is false) the `?` passes it on and nothing is recorded.
RegistryCreateFrom(p, k, url, registry_ok) ==
    /\ pc[p] = "idle"
    /\ Len(requests) < MaxRequests
    /\ LET i == redirects[<<k, url>>] IN
        IF ~registry_ok
        THEN UNCHANGED <<pools, loads, redirects, known, requests>>
        ELSE IF i # 0 /\ loads[i].state # "Failed"
        THEN /\ requests' = Append(requests,
                    [p |-> p, k |-> k, url |-> url, h |-> loads[i].h, fresh |-> FALSE,
                     seen |-> loads[i].state])
             /\ UNCHANGED <<pools, loads, redirects, known>>
        ELSE LET r == PoolCreate(pools[k], 1)
                 h == Handle(k, r.i, r.v)
             IN /\ pools' = [pools EXCEPT ![k] = r.pool]
                /\ loads' = Append(loads, [k |-> k, url |-> url, h |-> h,
                                           state |-> "Pending"])
                /\ redirects' = [redirects EXCEPT ![<<k, url>>] = Len(loads) + 1]
                /\ known' = known \cup {h}
                /\ requests' = Append(requests,
                        [p |-> p, k |-> k, url |-> url, h |-> h, fresh |-> TRUE,
                         seen |-> IF i = 0 THEN "None" ELSE "Failed"])
    /\ ret' = IF registry_ok THEN "ok" ELSE "err"
    /\ UNCHANGED <<idx, frames, last_dimensions, window, device_ok, nresize, lpc, tick,
                   handed, pc, pending, ncalls, deleted, refused, pushed>>
    /\ UNCHANGED <<contextVars, lockVars, setupVars, rendererVars>>

\* A load ends: the content arrived and the loader pushes the create command
\* of the handle, or the load failed.
LoadResolve(i, ok) ==
    /\ i \in 1..Len(loads)
    /\ loads[i].state = "Pending"
    /\ IF ok
       THEN /\ ncalls < MaxCalls
            /\ loads' = [loads EXCEPT ![i].state = "Ready"]
            /\ LET cmd == [Command(CreateOp(loads[i].k), loads[i].h, 1, NoPtr, <<>>,
                                   ncalls + 1) EXCEPT !.sw = tick, !.at = lpc]
               IN /\ frames' = [frames EXCEPT ![Front] = CmdsPush(@, cmd)]
                  /\ pushed' = pushed \cup {cmd}
            /\ ncalls' = ncalls + 1
       ELSE /\ loads' = [loads EXCEPT ![i].state = "Failed"]
            /\ UNCHANGED <<frames, pushed, ncalls>>
    /\ UNCHANGED <<idx, pools, last_dimensions, window, device_ok, nresize, lpc, tick,
                   handed, pc, pending, ret, known, deleted, refused>>
    /\ UNCHANGED <<redirects, requests, contextVars, lockVars, setupVars, rendererVars>>

\* What a caller holding the handle observes of its load.
LoadState(h) ==
    LET i == CHOOSE i \in 1..Len(loads) : loads[i].h = h IN loads[i].state

\* create_mesh_from starting a load for every request.
create_mesh_from_always(p, url, registry_ok) ==
    RegistryCreateFromAlways(p, "meshes", url, registry_ok)

create_mesh_from(p, url, registry_ok) == RegistryCreateFrom(p, "meshes", url, registry_ok)

create_mesh_from_uuid(p, uuid, registry_ok) ==
    RegistryCreateFrom(p, "meshes", uuid, registry_ok)

create_texture_from(p, url, registry_ok) ==
    RegistryCreateFrom(p, "textures", url, registry_ok)

create_texture_from_uuid(p, uuid, registry_ok) ==
    RegistryCreateFrom(p, "textures", uuid, registry_ok)

\* ------------------------------------------------------------------- locks
\* The locks a call takes and gives back, in the order of its statements. The
\* lifecycle thread is thread 0; the others are the producers.
LockProducers == {1, 2, 3}
Threads == {0} \cup LockProducers

\* The exclusive accesses of the DoubleBuf: write() gives exclusive access to
\* the front log, its callers one after another; write_back_buf() gives
\* exclusive access to the back log, which no producer asks for. A swapped back
\* log receives no write of a producer, so swap() waits for whoever has the
\* front log, and exchanges the roles while it has both.
FrameLocks == {"front", "back"}

Acq(lock, mode) == [op |-> "acq", lock |-> lock, mode |-> mode]
Rel(lock) == [op |-> "rel", lock |-> lock, mode |-> "w"]

\* DoubleBuf::write(): the guard of the front log, dropped by the caller.
WritePlan == <<Acq("front", "w"), Rel("front")>>

\* DoubleBuf::write_back_buf(): the guard of the back log.
WriteBackPlan == <<Acq("back", "w"), Rel("back")>>

\* DoubleBuf::swap(): both logs, for the exchange.
SwapPlan == <<Acq("front", "w"), Acq("back", "w"), Rel("back"), Rel("front")>>

\* create_surface, create_shader, create_render_texture, and the registries'
\* create: the pool's write lock for one statement, then frames.write().
CreatePlan(k) == <<Acq(k, "w"), Rel(k)>> \o WritePlan

\* delete_surface, delete_shader, delete_render_texture, and the registries'
\* delete: frames.write() is called only when free gave the params back.
DeletePlan(k, found) ==
    IF found
    THEN <<Acq(k, "w"), Rel(k)>> \o WritePlan
    ELSE <<Acq(k, "w"), Rel(k)>>

\* update_vertex_buffer, update_index_buffer, update_texture: the closure runs
\* inside the registry's get, and calls frames.write() there.
UpdatePlan(k, found) ==
    IF found
    THEN <<Acq(k, "r")>> \o WritePlan \o <<Rel(k)>>
    ELSE <<Acq(k, "r"), Rel(k)>>

\* surface, shader, render_texture, mesh: the read lock of the pool or of the
\* registry for one statement.
LookupPlan(k) == <<Acq(k, "r"), Rel(k)>>

\* on_pre_update: frames.swap(), then frames.write().clear().
PreUpdatePlan == SwapPlan \o WritePlan

\* on_post_update: frames.write_back_buf().dispatch(..).
PostUpdatePlan == WriteBackPlan

Call(fn, k, found) == [fn |-> fn, k |-> k, found |-> found]

NoCall == Call("none", "none", TRUE)

LifecycleCalls ==
    {Call("on_pre_update", "none", TRUE), Call("on_post_update", "none", TRUE)}

\* The kinds whose calls the threads make: one kept in an ObjectPool behind a
\* RwLock, and one kept in a Registry.
LockKinds == {"surfaces", "meshes"}

\* The kinds with a lookup among the public functions.
LookupKinds == {"surfaces", "shaders", "render_textures", "meshes"}

ProducerCalls ==
    {Call("create", k, TRUE) : k \in LockKinds}
        \cup {Call("delete", k, found) : k \in LockKinds, found \in BOOLEAN}
        \cup {Call("update", k, found) : k \in RegistryKinds \cap LockKinds, found \in BOOLEAN}
        \cup {Call("lookup", k, TRUE) : k \in LookupKinds \cap LockKinds}

LockPlan(c) ==
    CASE c.fn = "create" -> CreatePlan(c.k)
      [] c.fn = "delete" -> DeletePlan(c.k, c.found)
      [] c.fn = "update" -> UpdatePlan(c.k, c.found)
      [] c.fn = "lookup" -> LookupPlan(c.k)
      [] c.fn = "on_pre_update" -> PreUpdatePlan
      [] c.fn = "on_post_update" -> PostUpdatePlan
      [] OTHER -> <<>>

\* The locks thread t holds: those it took and has not given back.
Held(t) ==
    LET plan == LockPlan(threads[t].call) IN
    {[lock |-> plan[j].lock, mode |-> plan[j].mode] :
        j \in {i \in 1..threads[t].at :
                 /\ plan[i].op = "acq"
                 /\ \A r \in (i + 1)..threads[t].at :
                        ~(plan[r].op = "rel" /\ plan[r].lock = plan[i].lock)}}

Returned(t) == threads[t].at = Len(LockPlan(threads[t].call))

NextLockOp(t) == LockPlan(threads[t].call)[threads[t].at + 1]

\* The threads whose hold keeps t from taking the lock it asks for: a write
\* lock excludes everyone, a read lock excludes writers.
Blockers(t) ==
    IF Returned(t) \/ NextLockOp(t).op # "acq"
    THEN {}
    ELSE {u \in Threads \ {t} :
            \E h \in Held(u) :
                /\ h.lock = NextLockOp(t).lock
                /\ (h.mode = "w" \/ NextLockOp(t).mode = "w")}

NoThread == [call |-> NoCall, at |-> 0]

InitLocks == threads = [t \in Threads |-> NoThread]

\* Thread t enters a call; the lifecycle thread runs its two hooks in turn.
begin_call(t, c) ==
    /\ Returned(t)
    /\ IF t = 0
       THEN c = Call(IF threads[t].call.fn = "on_pre_update"
                     THEN "on_post_update" ELSE "on_pre_update", "none", TRUE)
       ELSE c \in ProducerCalls
    /\ threads' = [threads EXCEPT ![t] = [call |-> c, at |-> 0]]
    /\ UNCHANGED <<videoVars, contextVars, registryVars, setupVars, rendererVars>>

\* Thread t takes the lock its next statement asks for, once nobody excludes it.
acquire(t) ==
    /\ ~Returned(t)
    /\ NextLockOp(t).op = "acq"
    /\ Blockers(t) = {}
    /\ threads' = [threads EXCEPT ![t] = [@ EXCEPT !.at = @ + 1]]
    /\ UNCHANGED <<videoVars, contextVars, registryVars, setupVars, rendererVars>>

\* Thread t's guard goes out of scope. With its last guard a producer's call
\* returns.
release(t) ==
    /\ ~Returned(t)
    /\ NextLockOp(t).op = "rel"
    /\ threads' = [threads EXCEPT ![t] =
            IF t # 0 /\ @.at + 1 = Len(LockPlan(@.call))
            THEN NoThread
            ELSE [@ EXCEPT !.at = @ + 1]]
    /\ UNCHANGED <<videoVars, contextVars, registryVars, setupVars, rendererVars>>

\* Handles whose resource is alive.
Live(k) == {h \in known : PoolGet(pools[k], h) # None}

Init ==
    /\ InitVideo
    /\ caps = FullCaps
    /\ InitContext
    /\ InitRegistry
    /\ InitSetup
    /\ InitRenderer
    /\ InitLocks

\* One producer thread and the lifecycle thread; a kind kept in an ObjectPool
\* (surfaces) and a kind kept in a Registry, with bulk data (meshes).
Next ==
    \/ on_pre_update_swap
    \/ on_pre_update_clear
    \/ on_post_update
    \/ \E params \in Params : create_surface(1, params)
    \/ create_surface_push(1)
    \/ \E h \in Handles("surfaces") : delete_surface(1, h)
    \/ delete_surface_push(1)
    \/ \E params \in Params, registry_ok \in BOOLEAN :
            create_mesh(1, params, None, registry_ok)
    \/ create_mesh_push(1)
    \/ \E h \in Live("meshes"), o \in Offsets, d \in Data :
            update_vertex_buffer(1, h, o, d)

Spec == Init /\ [][Next]_vars

\* One producer thread and the lifecycle thread; the three calls that write
\* bulk data into the arena.
NextData ==
    \/ on_pre_update_swap
    \/ on_pre_update_clear
    \/ on_post_update
    \/ \E params \in Params : create_mesh(1, params, Some(<<7>>), TRUE)
    \/ create_mesh_push(1)
    \/ \E h \in Live("meshes"), o \in Offsets, d \in Data :
            update_vertex_buffer(1, h, o, d)
    \/ \E h \in Live("meshes"), o \in Offsets, d \in Data :
            update_index_buffer(1, h, o, d)
    \/ \E params \in Params : create_texture(1, params, None, TRUE)
    \/ create_texture_push(1)
    \/ \E h \in Live("textures"), o \in Offsets, d \in Data :
            update_texture(1, h, o, d)

SpecData == Init /\ [][NextData]_vars

\* Two producer threads; the three kinds kept in an ObjectPool behind a RwLock.
NextPools ==
    \/ \E p \in Producers, params \in Params : create_surface(p, params)
    \/ \E p \in Producers : create_surface_push(p)
    \/ \E p \in Producers, h \in Handles("surfaces") : delete_surface(p, h)
    \/ \E p \in Producers : delete_surface_push(p)
    \/ \E p \in Producers, params \in Params, valid \in BOOLEAN :
            create_shader(p, params, valid)
    \/ \E p \in Producers : create_shader_push(p)
    \/ \E p \in Producers, h \in Handles("shaders") : delete_shader(p, h)
    \/ \E p \in Producers : delete_shader_push(p)
    \/ \E p \in Producers, params \in Params : create_render_texture(p, params)
    \/ \E p \in Producers : create_render_texture_push(p)
    \/ \E p \in Producers, h \in Handles("render_textures") : delete_render_texture(p, h)
    \/ \E p \in Producers : delete_render_texture_push(p)

SpecPools == Init /\ [][NextPools]_vars

\* Two producer threads; meshes and textures, with stale and unknown handles
\* among the inputs of every call.
NextErr ==
    \/ \E p \in Producers, params \in Params, registry_ok \in BOOLEAN :
            create_mesh(p, params, None, registry_ok)
    \/ \E p \in Producers : create_mesh_push(p)
    \/ \E p \in Producers, h \in Handles("meshes"), o \in Offsets, d \in Data :
            update_vertex_buffer(p, h, o, d)
    \/ \E p \in Producers, h \in Handles("meshes"), o \in Offsets, d \in Data :
            update_index_buffer(p, h, o, d)
    \/ \E p \in Producers, h \in Handles("meshes") : delete_mesh(p, h)
    \/ \E p \in Producers : delete_mesh_push(p)
    \/ \E params \in Params, data \in CreateData, registry_ok \in BOOLEAN :
            create_texture(1, params, data, registry_ok)
    \/ \E p \in Producers : create_texture_push(p)
    \/ \E p \in Producers, h \in Handles("textures"), o \in Offsets, d \in Data :
            update_texture(p, h, o, d)
    \/ \E p \in Producers, h \in Handles("textures") : delete_texture(p, h)
    \/ \E p \in Producers : delete_texture_push(p)

SpecErr == Init /\ [][NextErr]_vars

\* One producer thread and the lifecycle thread, over a device whose dispatch
\* can fail in any tick.
NextDevice ==
    \/ on_pre_update_swap
    \/ on_pre_update_clear
    \/ on_post_update
    \/ device_change
    \/ \E params \in Params : create_mesh(1, params, None, TRUE)
    \/ create_mesh_push(1)
    \/ \E h \in Live("meshes"), o \in Offsets, d \in Data :
            update_vertex_buffer(1, h, o, d)

SpecDevice == Init /\ [][NextDevice]_vars

\* One producer thread and the lifecycle thread, under a window whose size
\* changes at any moment.
NextResize ==
    \/ on_pre_update_swap
    \/ on_pre_update_clear
    \/ on_post_update
    \/ \E d \in Dims : window_change(d)
    \/ \E params \in Params : create_surface(1, params)
    \/ create_surface_push(1)

SpecResize == Init /\ [][NextResize]_vars

\* Two producer threads creating and deleting surfaces and render textures,
\* and the lifecycle thread.
NextReuse ==
    \/ on_pre_update_swap
    \/ on_pre_update_clear
    \/ on_post_update
    \/ \E p \in Producers, params \in Params : create_surface(p, params)
    \/ \E p \in Producers : create_surface_push(p)
    \/ \E p \in Producers, h \in Live("surfaces") : delete_surface(p, h)
    \/ \E p \in Producers : delete_surface_push(p)
    \/ \E p \in Producers, params \in Params : create_render_texture(p, params)
    \/ \E p \in Producers : create_render_texture_push(p)
    \/ \E p \in Producers, h \in Live("render_textures") : delete_render_texture(p, h)
    \/ \E p \in Producers : delete_render_texture_push(p)

SpecReuse == Init /\ [][NextReuse]_vars

\* Two producer threads writing bulk data for meshes and textures, and the
\* lifecycle thread: the first thread creates the meshes and writes their
\* indices, the second writes their vertices and creates and writes the textures.
NextArena ==
    \/ on_pre_update_swap
    \/ on_pre_update_clear
    \/ on_post_update
    \/ \E params \in Params : create_mesh(1, params, Some(<<7>>), TRUE)
    \/ create_mesh_push(1)
    \/ \E h \in Live("meshes"), o \in Offsets, d \in Data :
            update_vertex_buffer(2, h, o, d)
    \/ \E h \in Live("meshes"), o \in Offsets, d \in Data :
            update_index_buffer(1, h, o, d)
    \/ \E params \in Params : create_texture(2, params, None, TRUE)
    \/ create_texture_push(2)
    \/ \E h \in Live("textures"), o \in Offsets, d \in Data :
            update_texture(2, h, o, d)

SpecArena == Init /\ [][NextArena]_vars

\* The lifecycle thread and three producer threads, each call seen as the locks
\* it takes; calls without end. A thread that is running goes on running, and a
\* thread asking for a lock that stays free gets it. The RwLock states no
\* order among the threads waiting for it, so nothing more is taken of it.
NextLocks ==
    \/ \E t \in Threads, c \in ProducerCalls \cup LifecycleCalls : begin_call(t, c)
    \/ \E t \in Threads : acquire(t)
    \/ \E t \in Threads : release(t)

SpecLocks ==
    /\ Init
    /\ [][NextLocks]_vars
    /\ \A t \in Threads : WF_vars(acquire(t)) /\ WF_vars(release(t))

\* Two threads asking for content by location, and the loads ending either way.
NextRegistry ==
    \/ \E p \in Producers, url \in Urls, registry_ok \in BOOLEAN :
            create_mesh_from(p, url, registry_ok)
    \/ \E uuid \in Uuids, registry_ok \in BOOLEAN :
            create_mesh_from_uuid(1, uuid, registry_ok)
    \/ \E p \in Producers, url \in Urls, registry_ok \in BOOLEAN :
            create_texture_from(p, url, registry_ok)
    \/ \E uuid \in Uuids, registry_ok \in BOOLEAN :
            create_texture_from_uuid(2, uuid, registry_ok)
    \/ \E i \in 1..MaxRequests, ok \in BOOLEAN : LoadResolve(i, ok)

SpecRegistry == Init /\ [][NextRegistry]_vars

\* A SurfaceSetup and every call of set_attachments on it.
NextSetup ==
    \E colors \in ColorLists, depth_stencil \in {None, Some(1)} :
        set_attachments(colors, depth_stencil)

SpecSetup == Init /\ [][NextSetup]_vars

\* The draw lists a UI hands to the Renderer.
DrawLists == [nverts : VertCounts, nidx : IdxCounts, cmds : CmdBuffers]

\* The imgui Renderer: creation, one draw list after another, the backend
\* executing what each submitted.
NextRenderer ==
    \/ \E ok \in BOOLEAN : Renderer_new(ok)
    \/ \E tasks \in DrawLists, zero \in BOOLEAN, fail \in Fails :
            render_draw_list(tasks, zero, fail)
    \/ backend_execute

SpecRenderer == Init /\ [][NextRenderer]_vars

\* The imgui Renderer from its creation to its drop.
NextDrop ==
    \/ \E ok \in BOOLEAN : Renderer_new(ok)
    \/ \E tasks \in DrawLists, zero \in BOOLEAN, fail \in Fails :
            render_draw_list(tasks, zero, fail)
    \/ Renderer_drop

SpecDrop == Init /\ [][NextDrop]_vars

\* The capability gate: every OpenGL implementation of CapsSet, and Context::new
\* on it.
InitCaps ==
    /\ InitVideo
    /\ caps \in CapsSet
    /\ InitContext
    /\ InitRegistry
    /\ InitSetup
    /\ InitRenderer
    /\ InitLocks

NextCaps == \E native_ok \in BOOLEAN : Context_new(native_ok)

SpecCaps == InitCaps /\ [][NextCaps]_vars

\* The backend context on a capable implementation: creation, buffer swaps with
\* every outcome of the native swap, rebuilds.
NextContext ==
    \/ \E native_ok \in BOOLEAN : Context_new(native_ok)
    \/ \E c \in ContextCallers : swap_buffers(c)
    \/ \E c \in ContextCallers, outcome \in NativeSwapOutcomes : swap_buffers_native(c, outcome)
    \/ \E c \in ContextCallers : swap_buffers_mark(c)
    \/ rebuild

SpecContext == Init /\ [][NextContext]_vars

\* ------------------------------------------------------------- properties
CreateOps == {"CreateSurface", "CreateShader", "CreateMesh", "CreateTexture",
              "CreateRenderTexture"}
DeleteOps == {"DeleteSurface", "DeleteShader", "DeleteMesh", "DeleteTexture",
              "DeleteRenderTexture"}
UpdateOps == {"UpdateVertexBuffer", "UpdateIndexBuffer", "UpdateTexture"}

\* The places of the dispatch order: command j of the log handed over in tick i.
Places == UNION {{<<i, j>> : j \in 1..Len(handed[i].cmds)} : i \in 1..Len(handed)}
At(pl) == handed[pl[1]].cmds[pl[2]]
Before(a, b) == a[1] < b[1] \/ (a[1] = b[1] /\ a[2] < b[2])

\* Commands lying in one of the two frames.
InFrames == UNION {{frames[f].cmds[j] : j \in 1..Len(frames[f].cmds)} : f \in {0, 1}}
Handed == {At(pl) : pl \in Places}

\* C1: with one producer thread, the log handed to dispatch for a frame holds
\* commands of that frame only (pushed between the previous swap and this one),
\* in the order of the calls that made them, none twice.
C1_FifoPerFrame ==
    \A a \in Places :
        /\ At(a).sw = a[1] - 1
        /\ \A b \in Places :
            (a[1] = b[1] /\ a[2] < b[2]) => At(a).id < At(b).id

C1_Witness ==
    \E i \in 1..Len(handed) :
        /\ Len(handed[i].cmds) = 3
        /\ handed[i].cmds[3].op = "UpdateVertexBuffer"

\* C2 as claimed: a command pushed in tick N, after on_pre_update and before
\* on_post_update, is in the log that on_post_update of tick N hands to dispatch.
C2_SameTick ==
    \A c \in pushed :
        (c.at = "post" /\ Len(handed) >= c.sw) =>
            \E pl \in Places : pl[1] = c.sw /\ At(pl) = c

\* C2 amended: a command pushed in tick N, after on_pre_update and before
\* on_post_update, is not in the log handed to dispatch in tick N, and is in the
\* log handed to dispatch by on_post_update of tick N+1.
C2_NextTick ==
    \A c \in pushed :
        c.at = "post" =>
            /\ \A pl \in Places : pl[1] = c.sw => At(pl) # c
            /\ Len(handed) >= c.sw + 1 =>
                    \E pl \in Places : pl[1] = c.sw + 1 /\ At(pl) = c

C2_Witness ==
    \E c \in pushed : c.at = "post" /\ Len(handed) >= c.sw + 1

\* C3: every command pushed into the log is handed to dispatch exactly once:
\* it is waiting in a frame, or it has been handed over once, never more.
C3_ExactlyOnce ==
    \A c \in pushed :
        LET n == Cardinality({pl \in Places : At(pl) = c}) IN
            n = 1 \/ (n = 0 /\ c \in InFrames)

\* C4: between two swaps no call of a producer changes the back log, neither
\* its commands nor its arena: a step in which a producer moves, or a command
\* is pushed, or a pool or registry changes, leaves the back log as it was, and
\* a step that changes the back log without a swap is on_post_update handing
\* that log, as it stood, to dispatch.
C4_BackLogStable ==
    [][/\ (pc' # pc \/ pending' # pending \/ pushed' # pushed
                \/ ncalls' # ncalls \/ pools' # pools \/ known' # known)
            => (idx' = idx /\ frames'[Back] = frames[Back])
       /\ (idx' = idx /\ frames'[Back] # frames[Back])
            => /\ on_post_update
               /\ handed'[Len(handed')].cmds = frames[Back].cmds
               /\ handed'[Len(handed')].bufs = frames[Back].bufs]_vars

C4_Witness ==
    /\ lpc = "post"
    /\ frames[Back].bufs # <<>>
    /\ \E j \in 1..Len(frames[Front].cmds) :
            frames[Front].cmds[j].op = "UpdateVertexBuffer"

\* C5: the dispatch order follows the swaps: a command pushed before a swap is
\* never placed after a command pushed after that swap, and none pushed before
\* it is still waiting in a frame once one pushed after it has been handed over.
C5_FramesSerialized ==
    /\ \A a \in Places : \A b \in Places :
            Before(a, b) => At(a).sw <= At(b).sw
    /\ \A a \in Places : \A c \in InFrames \ Handed : At(a).sw <= c.sw

C5_Witness ==
    \E a \in Places : \E b \in Places :
        Before(a, b) /\ At(a).sw = 0 /\ At(b).sw = 1

\* C6: for every handle, at most one delete command is ever made, however
\* often and from however many threads delete is called for it.
C6_OneDelete ==
    \A h \in known :
        Cardinality({c \in pushed \cup {pending[p] : p \in Producers} :
                        c.op \in DeleteOps /\ c.h = h}) <= 1

C6_Witness ==
    \E h \in refused : \E c \in pushed : c.op \in DeleteOps /\ c.h = h

\* C7: once delete has returned for a handle, the lookup of that handle gives
\* None ever after, also when its slot holds a later resource.
C7_StaleIsAbsent ==
    \A h \in deleted :
        /\ h.k = "surfaces" => surface(h) = None
        /\ h.k = "shaders" => shader(h) = None
        /\ h.k = "render_textures" => render_texture(h) = None

C7_Witness ==
    \E h \in deleted : \E g \in known :
        /\ g.k = h.k /\ g.i = h.i /\ g.v # h.v
        /\ PoolGet(pools[g.k], g) # None

\* C8: every command handed to dispatch that is not a create is preceded, in
\* the dispatch order, by the create command of its handle.
C8_CreateFirst ==
    \A a \in Places :
        At(a).op \notin CreateOps =>
            \E b \in Places :
                Before(b, a) /\ At(b).op \in CreateOps /\ At(b).h = At(a).h

\* C9: an update call for a handle that names no live resource returns the
\* not-found error and changes neither frame.
C9_StaleUpdateRejected ==
    [][/\ \A p \in Producers, h \in Handles("meshes"), o \in Offsets, d \in Data :
            /\ (mesh(h) = None /\ update_vertex_buffer(p, h, o, d))
                    => (ret' = "notfound" /\ frames' = frames)
            /\ (mesh(h) = None /\ update_index_buffer(p, h, o, d))
                    => (ret' = "notfound" /\ frames' = frames)
       /\ \A p \in Producers, h \in Handles("textures"), o \in Offsets, d \in Data :
            (PoolGet(pools["textures"], h) = None /\ update_texture(p, h, o, d))
                    => (ret' = "notfound" /\ frames' = frames)]_vars

C9_Witness ==
    /\ ret = "notfound"
    /\ deleted # {}
    /\ frames[Front].cmds # <<>>

\* C10: for every update call that returned Ok, the frame holding its command
\* is not cleared between the enqueue and the dispatch (the command is waiting
\* in a frame or has been handed to dispatch), and the bytes at its pointer, in
\* the frame that holds it and in the log handed to dispatch, are the bytes the
\* caller passed.
C10_ArenaRoundTrip ==
    /\ \A c \in pushed :
            c.op \in UpdateOps => (c \in InFrames \/ c \in Handed)
    /\ \A a \in Places :
            At(a).op \in UpdateOps =>
                AsSlice(handed[a[1]].bufs, At(a).ptr) = At(a).data
    /\ \A f \in {0, 1} : \A j \in 1..Len(frames[f].cmds) :
            frames[f].cmds[j].op \in UpdateOps =>
                AsSlice(frames[f].bufs, frames[f].cmds[j].ptr) = frames[f].cmds[j].data

\* Commands pushed in frame n outside on_pre_update: after the on_pre_update
\* that began the frame has returned and before the next one is called.
WrittenIn(n) == {c \in pushed : c.sw = n /\ c.at # "clear"}

\* The commands of log i of the dispatch order.
LogCmds(i) == {handed[i].cmds[j] : j \in 1..Len(handed[i].cmds)}

\* C14: when no producer writes between two consecutive on_pre_update calls,
\* the log handed to dispatch after the second is empty, commands and arena; no
\* command is handed to dispatch twice, and once on_pre_update has returned no
\* command already handed to dispatch is left in a frame.
C14_EmptyFrames ==
    /\ \A i \in 1..Len(handed) :
            WrittenIn(i - 1) = {} => (handed[i].cmds = <<>> /\ handed[i].bufs = <<>>)
    /\ \A a \in Places : \A b \in Places : At(a) = At(b) => a = b
    /\ lpc = "post" => InFrames \cap Handed = {}

C14_Witness ==
    /\ Len(handed) = 2
    /\ handed[1].cmds # <<>> /\ handed[1].bufs # <<>> /\ ~handed[1].ok
    /\ handed[2].cmds = <<>> /\ handed[2].bufs = <<>>

\* C15: create_shader with parameters that fail validation returns the
\* validation error and changes no pool, no frame and no call in progress.
C15_InvalidShaderNoEffect ==
    [][\A p \in Producers, params \in Params :
            create_shader(p, params, FALSE) =>
                /\ ret' = "invalid"
                /\ pools' = pools /\ frames' = frames
                /\ pending' = pending /\ pc' = pc
                /\ known' = known /\ pushed' = pushed]_vars

C15_Witness ==
    /\ ret = "invalid"
    /\ Len(pools["shaders"]) = 1
    /\ \E c \in pushed : c.op = "CreateShader"

\* C16: on_post_update returns the error exactly when dispatch fails; the
\* commands of a log whose dispatch failed are in no later log and, once the
\* next on_pre_update has returned, in no frame; and a command pushed outside
\* on_pre_update is handed to dispatch in the tick after the swap that began its
\* frame, whatever failed before.
C16_FailedFrameDropped ==
    /\ \A i \in 1..Len(handed) : (handed[i].ret = "err") <=> ~handed[i].ok
    /\ \A i \in 1..Len(handed) : \A j \in 1..Len(handed) :
            (i < j /\ ~handed[i].ok) => LogCmds(i) \cap LogCmds(j) = {}
    /\ \A i \in 1..Len(handed) :
            (~handed[i].ok /\ (tick > i + 1 \/ (tick = i + 1 /\ lpc # "clear")))
                => LogCmds(i) \cap InFrames = {}
    /\ \A c \in pushed :
            (c.at # "clear" /\ Len(handed) >= c.sw + 1) => c \in LogCmds(c.sw + 1)

C16_Witness ==
    /\ Len(handed) = 2
    /\ ~handed[1].ok /\ handed[1].cmds # <<>>
    /\ handed[2].ok /\ handed[2].cmds # <<>>

\* C17: a create_mesh_from or create_texture_from call that finds the load of
\* its location Pending starts no load and returns the handle of the call that
\* started it; that handle has one load, so both callers observe one state.
C17_Dedup ==
    \A n \in 1..Len(requests) :
        requests[n].seen = "Pending" =>
            /\ ~requests[n].fresh
            /\ \E m \in 1..(n - 1) :
                    /\ requests[m].fresh
                    /\ requests[m].k = requests[n].k /\ requests[m].url = requests[n].url
                    /\ requests[m].h = requests[n].h
            /\ Cardinality({i \in 1..Len(loads) :
                    loads[i].k = requests[n].k /\ loads[i].url = requests[n].url
                    /\ loads[i].h = requests[n].h}) = 1
            /\ Cardinality({i \in 1..Len(loads) : loads[i].h = requests[n].h}) = 1

C17_Witness ==
    \E n \in 1..Len(requests) :
        /\ requests[n].seen = "Pending"
        /\ requests[n].k = "textures"
        /\ \E m \in 1..(n - 1) : requests[m].h = requests[n].h /\ requests[m].p # requests[n].p
        /\ LoadState(requests[n].h) = "Failed"

\* C18: set_attachments fails with TooManyColorAttachments exactly when more
\* colors are given than MAX_FRAMEBUFFER_ATTACHMENTS, and a failing call leaves
\* colors and depth_stencil as they were.
C18_TooManyIffExceeds ==
    [][\A colors \in ColorLists, depth_stencil \in {None, Some(1)} :
            set_attachments(colors, depth_stencil) =>
                /\ (sret' = "TooManyColorAttachments")
                        <=> (Len(colors) > MAX_FRAMEBUFFER_ATTACHMENTS)
                /\ (sret' = "TooManyColorAttachments") => (setup' = setup)]_vars

\* The smallest power of two not below n.
IsSmallestPow2(c, n) ==
    /\ \E e \in 0..8 : c = 2 ^ e
    /\ c >= n
    /\ c = 1 \/ c \div 2 < n

\* The ops among the first n things the last call submitted.
IssuedOps(n) == {issued[j].op : j \in 1..n}

\* C19: an update_mesh that succeeds reuses the cached handle, submitting the
\* two updates and neither delete nor create, when both cached capacities cover
\* the counts; otherwise it deletes the cached mesh, if any, and creates one
\* whose capacities are the smallest powers of two not below the counts. The
\* mesh it returns has capacities at least the counts.
C19_MeshReuseOrGrow ==
    (rcall.op = "render" /\ rcall.um = "ok") =>
        LET nverts == rcall.tasks.nverts
            nidx == rcall.tasks.nidx
            before == rcall.before
            fits == before # None /\ before[1][1] >= nverts /\ before[1][2] >= nidx
            h == rcall.handle
        IN /\ fits =>
                /\ h = before[1][3]
                /\ rcall.base = 2
                /\ issued[1] = RCmd("UpdateVertexBuffer", h, 0, nverts)
                /\ issued[2] = RCmd("UpdateIndexBuffer", h, 0, nidx)
                /\ renderer[1].mesh = before
           /\ ~fits =>
                /\ before # None =>
                        /\ issued[1] = RCmd("DeleteMesh", before[1][3], 0, 0)
                        /\ ~rmeshes[before[1][3]].alive
                        /\ h # before[1][3]
                /\ rcall.base = IF before = None THEN 1 ELSE 2
                /\ issued[rcall.base].op = "CreateMesh" /\ issued[rcall.base].mesh = h
                /\ IsSmallestPow2(rmeshes[h].nv, nverts)
                /\ IsSmallestPow2(rmeshes[h].ni, nidx)
                /\ "UpdateVertexBuffer" \notin IssuedOps(rcall.base)
                /\ renderer[1].mesh = Some(<<rmeshes[h].nv, rmeshes[h].ni, h>>)
           /\ rmeshes[h].alive
           /\ rmeshes[h].nv >= nverts /\ rmeshes[h].ni >= nidx

C19_Witness ==
    /\ rcall.op = "render" /\ rcall.um = "ok"
    /\ rcall.before # None
    /\ rcall.before[1][1] >= rcall.tasks.nverts
    /\ rcall.before[1][2] < rcall.tasks.nidx
    /\ Len(rmeshes) = 2

\* The sum of elem_count of the first k commands.
RECURSIVE SumElems(_, _)
SumElems(cmds, k) == IF k = 0 THEN 0 ELSE SumElems(cmds, k - 1) + cmds[k].elem_count

\* C20: a render_draw_list that succeeds on a display with a size submits,
\* after the mesh update, for the k-th command of the draw list its scissor and
\* right after it its draw call, starting at the sum of the elem_count of the
\* commands before it; and the backend executes the submissions of the
\* Renderer's surface, which is in sequence mode, in the order of submission.
C20_SequenceOrder ==
    (rcall.op = "render" /\ rcall.ret = "ok" /\ ~rcall.zero) =>
        LET cmds == rcall.tasks.cmds
            base == rcall.base
        IN /\ Len(issued) = base + 2 * Len(cmds)
           /\ \A k \in 1..Len(cmds) :
                /\ issued[base + 2 * k - 1] = RCmd("SetScissor", 0, cmds[k].clip_rect, 0)
                /\ issued[base + 2 * k] =
                        RCmd("Draw", rcall.handle, SumElems(cmds, k - 1), cmds[k].elem_count)
           /\ renderer[1].surface.sequence
           /\ executed # <<>> => executed = issued

C20_Witness ==
    /\ rcall.op = "render" /\ rcall.ret = "ok" /\ ~rcall.zero
    /\ Len(rcall.tasks.cmds) = 2
    /\ executed # <<>>
    /\ executed[Len(executed)].a = 3

\* C11: once a swap_buffers call has reported the context lost, the context is
\* lost, and every later swap_buffers call, one that begins after the report
\* and returns before any rebuild, fails with ContextLost without calling the
\* native swap.
C11_LostFailsFast ==
    /\ \A i \in 1..Len(swaps) : \A j \in 1..Len(swaps) :
            (/\ swaps[i].res = "ContextLost"
             /\ swaps[j].began >= i
             /\ swaps[j].nrebuild = swaps[i].nrebuild)
                => (swaps[j].res = "ContextLost" /\ ~swaps[j].native)
    /\ (\E i \in 1..Len(swaps) :
            swaps[i].res = "ContextLost" /\ swaps[i].nrebuild = nrebuild)
                => is_context_lost

\* One call reports the loss; a call that had read context_lost before the
\* report still goes through the native swap; a call begun after the report
\* fails without it.
C11_Witness ==
    /\ Len(swaps) >= 3
    /\ swaps[1].res = "ContextLost" /\ swaps[1].native
    /\ swaps[2].began = 0 /\ swaps[2].native /\ swaps[2].res = "ok"
    /\ swaps[3].began >= 1 /\ ~swaps[3].native /\ swaps[3].res = "ContextLost"
    /\ swaps[3].nrebuild = 0

\* Swaps reported lost since the last rebuild.
LostSinceRebuild(n, upto) ==
    {i \in 1..upto : swaps[i].res = "ContextLost" /\ swaps[i].nrebuild = n}

\* C12: a rebuild returns a lost context to Active: after a rebuild, and until
\* a swap reports the context lost again, is_context_lost is false and
\* swap_buffers calls the native swap.
C12_RebuildRecovers ==
    /\ (context # None /\ nrebuild > 0 /\ LostSinceRebuild(nrebuild, Len(swaps)) = {})
            => ~is_context_lost
    /\ \A j \in 1..Len(swaps) :
            (swaps[j].nrebuild > 0 /\ LostSinceRebuild(swaps[j].nrebuild, j - 1) = {})
                => swaps[j].native

\* The floors of the six required capabilities: the lowest version of each API
\* that has the capability, and the extensions that bring it.
Floors ==
    [c \in {"vertex buffer objects", "vertex/fragment shaders", "framebuffers",
            "blitting framebuffers", "uniform buffer object", "vertex array object"} |->
        CASE c = "vertex buffer objects" ->
                [gl |-> GL(1, 5), es |-> ES(2, 0),
                 exts |-> {"gl_arb_vertex_buffer_object", "gl_arb_map_buffer_range"}]
          [] c = "vertex/fragment shaders" ->
                [gl |-> GL(2, 0), es |-> ES(2, 0),
                 exts |-> {"gl_arb_shader_objects", "gl_arb_vertex_shader",
                           "gl_arb_fragment_shader"}]
          [] c = "framebuffers" ->
                [gl |-> GL(3, 0), es |-> ES(2, 0),
                 exts |-> {"gl_ext_framebuffer_object", "gl_arb_framebuffer_object"}]
          [] c = "blitting framebuffers" ->
                [gl |-> GL(3, 0), es |-> ES(2, 0),
                 exts |-> {"gl_ext_framebuffer_blit"}]
          [] c = "uniform buffer object" ->
                [gl |-> GL(3, 1), es |-> ES(3, 0),
                 exts |-> {"gl_arb_uniform_buffer_object"}]
          [] OTHER ->
                [gl |-> GL(3, 0), es |-> ES(3, 0),
                 exts |-> {"gl_arb_vertex_array_object", "gl_apple_vertex_array_object",
                           "gl_oes_vertex_array_object"}]]

\* The version is at or above the floor of its own API.
MeetsFloor(v, f) ==
    LET floor == IF v.api = "GL" THEN f.gl ELSE f.es IN
        \/ v.major > floor.major
        \/ (v.major = floor.major /\ v.minor >= floor.minor)

\* C13: a capability whose floor the version meets, or whose named extensions
\* are present, is not rejected, neither by check_minimal_requirements nor by
\* Context::new; and when Context::new fails on a capability there is no Context.
C13_CapabilityGate ==
    /\ \A c \in DOMAIN Floors :
            (MeetsFloor(caps.version, Floors[c]) \/ Floors[c].exts \subseteq caps.extensions)
                => (check_minimal_requirements(caps) # c /\ cret # c)
    /\ cret \in DOMAIN Floors => context = None
    /\ context # None => check_minimal_requirements(caps) = "ok"

C13_Witness ==
    /\ cret = "uniform buffer object"
    /\ context = None
    /\ caps.version = GL(1, 4)
    /\ "gl_ext_framebuffer_blit" \in caps.extensions

\* ------------------------------------------------------------------ C21
\* The number of on_post_update calls among the first n that resized the window.
RECURSIVE Resizes(_)
Resizes(n) ==
    IF n = 0 THEN 0 ELSE Resizes(n - 1) + (IF handed[n].resized THEN 1 ELSE 0)

\* C21: on_post_update calls window::resize exactly when the dimensions it
\* measured differ from last_dimensions, and the dimensions it passes to
\* dispatch are the ones it measured in that same call, which last_dimensions
\* holds from then on.
C21_ResizeOnChange ==
    /\ nresize = Resizes(Len(handed))
    /\ \A i \in 1..Len(handed) :
            /\ handed[i].resized <=> (handed[i].measured # handed[i].before)
            /\ handed[i].dims = handed[i].measured
    /\ \A i \in 1..(Len(handed) - 1) : handed[i + 1].before = handed[i].measured
    /\ (handed # <<>>) => last_dimensions = handed[Len(handed)].measured

\* A frame recorded under one size is dispatched, with a resize, under another;
\* the next frame is dispatched without one.
C21_Witness ==
    /\ Len(handed) = 2
    /\ handed[1].cmds # <<>>
    /\ handed[1].resized /\ handed[1].dims = 2 /\ handed[1].before = 1
    /\ ~handed[2].resized /\ handed[2].dims = 2
    /\ nresize = 1

\* ------------------------------------------------------------------ C22
\* c creates a handle in the slot that d's handle occupied before it.
Reuses(c, d) ==
    /\ c.op \in CreateOps
    /\ d.op \in DeleteOps
    /\ c.h.k = d.h.k
    /\ c.h.i = d.h.i
    /\ d.h.v < c.h.v

\* C22: when a create call reuses the slot a delete call freed, the delete
\* command comes before the create command in the dispatch order: in no log,
\* handed over or still being written, and in no two logs handed over one after
\* the other, does the create command of the slot's next handle come first.
C22_DeleteBeforeReuse ==
    /\ \A a, b \in Places : Reuses(At(a), At(b)) => Before(b, a)
    /\ \A f \in {0, 1} : \A a, b \in 1..Len(frames[f].cmds) :
            Reuses(frames[f].cmds[a], frames[f].cmds[b]) => b < a
    /\ \A c \in Handed, d \in InFrames : ~Reuses(c, d)

\* ------------------------------------------------------------------ C23
\* The bytes the first n commands of a log brought with them, in order.
RECURSIVE ArenaOf(_, _)
ArenaOf(cmds, n) ==
    IF n = 0 THEN <<>>
    ELSE ArenaOf(cmds, n - 1) \o cmds[n].data

\* The arena holds the bytes the log's commands brought with them and nothing
\* else, one after the other in the order of the commands, each update command
\* pointing at its own.
ArenaMatches(log) ==
    /\ log.bufs = ArenaOf(log.cmds, Len(log.cmds))
    /\ \A j \in 1..Len(log.cmds) :
            log.cmds[j].op \in UpdateOps =>
                /\ log.cmds[j].ptr.off = Len(ArenaOf(log.cmds, j - 1))
                /\ log.cmds[j].ptr.len = Len(log.cmds[j].data)

\* C23: an update command and the bytes its pointer refers to are in the same
\* frame, and nothing comes between the append and the push: at every moment
\* each frame's arena, and the arena of each log handed to dispatch, is exactly
\* the bytes of that frame's commands in the order of the commands.
C23_BytesWithCommand ==
    /\ \A f \in {0, 1} : ArenaMatches(frames[f])
    /\ \A i \in 1..Len(handed) : ArenaMatches(handed[i])

\* A log handed to dispatch holds two update commands, the second one's bytes
\* behind the first one's.
C23_Witness ==
    \E i \in 1..Len(handed) : \E a, b \in 1..Len(handed[i].cmds) :
        /\ a < b
        /\ handed[i].cmds[a].op = "UpdateVertexBuffer"
        /\ handed[i].cmds[b].op = "UpdateIndexBuffer"
        /\ handed[i].cmds[a].data = <<8, 9>>
        /\ handed[i].cmds[b].ptr = [off |-> 2, len |-> 1]
        /\ handed[i].bufs = <<8, 9, 7>>

\* ------------------------------------------------------------------ C24
\* No thread asks for a pool's or a registry's lock while it holds the frame's.
LockOrder ==
    \A t \in Threads :
        (~Returned(t) /\ NextLockOp(t).op = "acq" /\ NextLockOp(t).lock \notin FrameLocks)
            => \A h \in Held(t) : h.lock \notin FrameLocks

\* No set of threads each of which waits for a lock held inside the set.
NoDeadlock ==
    \A S \in SUBSET Threads :
        S # {} => \E t \in S : Blockers(t) = {} \/ ~(Blockers(t) \subseteq S)

\* C24: the threads take a pool's or a registry's lock first and the frame's
\* lock second, never the other way round; no threads wait for one another in
\* a circle; and every call that was entered returns.
C24_DeadlockFree ==
    /\ [](LockOrder /\ NoDeadlock)
    /\ \A t \in Threads : (~Returned(t)) ~> Returned(t)

\* ------------------------------------------------------------------ C25
\* C25: the mesh the Renderer keeps in its cache is never one it has deleted,
\* whatever calls failed before; and the drop of the Renderer deletes a mesh
\* that was still there, after which none of its meshes is left.
C25_CacheNeverDeleted ==
    /\ (renderer # None /\ renderer[1].mesh # None)
            => rmeshes[renderer[1].mesh[1][3]].alive
    /\ rcall.op = "drop" =>
            /\ rcall.mesh # None => rcall.was_alive
            /\ \A h \in 1..Len(rmeshes) : ~rmeshes[h].alive

====
